---- MODULE Spec2Model ----
(***************************************************************************)
(* Verification model of the gemini-report-generator pipeline.             *)
(*                                                                         *)
(*  - Spec      : one report run, in either of the two orchestrators:      *)
(*                impl = "generator": ReportGenerator.process_report with  *)
(*                generate_content (core/generator.py);                    *)
(*                impl = "main1": main() of main1.py, whose generation     *)
(*                functions are wrapped by utils.retry_with_backoff        *)
(*  - SpecCite  : the citation rewriting of generate_section_content       *)
(*                (src/report_generator/section_generator.py)              *)
(***************************************************************************)
EXTENDS Integers, Sequences, FiniteSets, TLC

\* ---------------------------------------------------------------- bounds
MaxRetries == 2
MaxSections == 3
MaxTextLen == 4
MaxSupports == 2
MaxLines == 3

\* ------------------------------------------------------------- constants
\* previous_sections[-3:] : only the last three sections feed the context
ContextSections == 3

\* @retry_with_backoff(max_retries=3) on every generation function of main1
DecoratorRetries == 3

\* section titles the extraction step may return
Titles == {"Market Overview", "References"}

\* the titles whose spelling is given below
TitleSpellings ==
    {"Market Overview", "References", "REFERENCES", "references",
     "Appendix A", "List of Appendices"}

\* a title, character by character
Letters(title) ==
    CASE title = "Market Overview" ->
             <<"M", "a", "r", "k", "e", "t", " ", "O", "v", "e", "r", "v", "i", "e", "w">>
      [] title = "References" ->
             <<"R", "e", "f", "e", "r", "e", "n", "c", "e", "s">>
      [] title = "REFERENCES" ->
             <<"R", "E", "F", "E", "R", "E", "N", "C", "E", "S">>
      [] title = "references" ->
             <<"r", "e", "f", "e", "r", "e", "n", "c", "e", "s">>
      [] title = "Appendix A" ->
             <<"A", "p", "p", "e", "n", "d", "i", "x", " ", "A">>
      [] title = "List of Appendices" ->
             <<"L", "i", "s", "t", " ", "o", "f", " ", "A", "p", "p", "e", "n", "d", "i", "c", "e", "s">>

\* str.lower(), character by character
LowerCase == ("A" :> "a") @@ ("C" :> "c") @@ ("E" :> "e") @@ ("F" :> "f") @@ ("L" :> "l") @@ ("M" :> "m") @@ ("N" :> "n") @@ ("O" :> "o") @@ ("R" :> "r") @@ ("S" :> "s")
Lower(s) == [j \in DOMAIN s |-> IF s[j] \in DOMAIN LowerCase THEN LowerCase[s[j]] ELSE s[j]]

\* sub in s, for two strings
Contains(s, sub) ==
    \E p \in 0..(Len(s) - Len(sub)) : SubSeq(s, p + 1, p + Len(sub)) = sub

\* SKIP_PARAPHRASING_SECTIONS = ['appendix', 'appendices', 'references']
SKIP_PARAPHRASING_SECTIONS ==
    {<<"a", "p", "p", "e", "n", "d", "i", "x">>,
     <<"a", "p", "p", "e", "n", "d", "i", "c", "e", "s">>,
     <<"r", "e", "f", "e", "r", "e", "n", "c", "e", "s">>}

\* the skip terms are looked for in the title as it is spelled
SkipsPolishing_CaseSensitive(title) ==
    \E skip_section \in SKIP_PARAPHRASING_SECTIONS : Contains(Letters(title), skip_section)

\* any(skip_section in section_title.lower()
\*     for skip_section in SKIP_PARAPHRASING_SECTIONS)
SkipsPolishing(title) ==
    \E skip_section \in SKIP_PARAPHRASING_SECTIONS :
        Contains(Lower(Letters(title)), skip_section)

\* the titles process_report does not polish
SkippedTitles == {title \in TitleSpellings : SkipsPolishing(title)}

VARIABLES
    impl,                  \* which orchestrator runs: "generator" | "main1"
    max_retries,           \* config['max_retries'] / the decorator's max_retries
    demo_mode,             \* report_config['demo_mode'] (main1)
    save_history,          \* config['save_history']
    conversation_history,  \* self.conversation_history / state.contents
    current_report_id,     \* self.current_report_id
    persisted,             \* history file written by save_conversation_history
    pc,                    \* position inside process_report
    attempt,               \* loop variable of the retry loop
    callStatus,            \* "idle" | "running" | "ok" | "raised" | "none"
    outcomes,              \* outcomes of the attempts of the current call
    sent,                  \* contents passed to the model at the latest attempt
    toc,                   \* value returned by generate_table_of_contents
    section_titles,        \* titles returned by extract_sections_from_toc
    idx,                   \* loop variable i of the section loop (1-based)
    content,               \* content returned by generate_section_content
    processed_sections,    \* processed_sections / sections_content
    genOutcome,            \* per section, how its generation step ended
    rewriter,              \* which generate_section_content rewrites
    cpc,                   \* position inside the citation rewriting
    section_number,        \* section_number of generate_section_content
    gen_text,              \* response.text as generated
    text,                  \* text, rewritten segment by segment
    grounding_supports,    \* grounding_metadata.grounding_supports
    grounding_chunks,      \* grounding_metadata.grounding_chunks
    sorted_supports,       \* sorted_supports
    support_pos,           \* position of the for loop in sorted_supports
    report_references,     \* report_references of the section
    parser,                \* which TOC parser runs
    ppc,                   \* position inside the TOC parsing
    toc_text,              \* the TOC text, line by line
    extraction_text,       \* the extraction response, line by line
    parsed_title,          \* title returned by the parser
    parsed_sections,       \* sections returned by the parser
    resume_from,           \* resume_from of process_report, "None" if absent
    saver,                 \* which function saves the report
    spc,                   \* position inside the save step
    report_title,          \* title / report_title
    sections_content,      \* sections_content / content of the report's sections
    references,            \* references (save_report_files only)
    template_loaded,       \* whether report_template.html can be read
    markdown_content,      \* markdown_content / md_content as written
    html_file,             \* what was written to the .html file
    pdf_file,              \* "absent" | "written" | "failed"
    deliverable,           \* what the save step returned
    report_states,         \* the ReportState objects of the concurrent runs
    run_pc,                \* per concurrent run: "idle" | "running" | "saved"
    saved_documents,       \* per concurrent run: what save_report_files got
    request_log,           \* statuses of the rows of system_log/request_{id}.csv
    lpc,                   \* position of the logged run of main1.main
    log_attempt,           \* loop variable of the decorator of the logged call
    log_left,              \* sections the logged run has still to generate
    metrics_csv,           \* rows of the shared LOGGING_CSV file
    csv_present,           \* os.path.isfile(LOGGING_CSV)
    file_exists,           \* per run: the local file_exists of log_token_metrics
    mpc,                   \* per run: position inside log_token_metrics
    metric_count,          \* per run: metric rows written so far
    generated_lines,       \* content.split('\n') of a generated section
    final_lines,           \* the lines generate_section_content returns
    npc                    \* "idle" | "content" | "returned"

configVars == <<impl, max_retries, demo_mode, save_history, resume_from>>
histVars == <<conversation_history, current_report_id, persisted>>
callVars == <<attempt, callStatus, outcomes, sent>>
loopVars == <<toc, section_titles, idx, content, processed_sections, genOutcome>>
runVars == <<configVars, histVars, callVars, loopVars, pc>>
citeVars == <<rewriter, cpc, section_number, gen_text, text, grounding_supports,
              grounding_chunks, sorted_supports, support_pos, report_references>>
parseVars == <<parser, ppc, toc_text, extraction_text, parsed_title, parsed_sections>>
saveVars == <<saver, spc, report_title, sections_content, references,
              template_loaded, markdown_content, html_file, pdf_file, deliverable>>
\* what a step of the run, of the rewriting, of the parsing, of the saving
\* leaves alone
concVars == <<report_states, run_pc, saved_documents>>
logVars == <<request_log, lpc, log_attempt, log_left>>
metricsVars == <<metrics_csv, csv_present, file_exists, mpc, metric_count>>
normVars == <<generated_lines, final_lines, npc>>
moreVars == <<logVars, metricsVars, normVars>>
besideRun == <<citeVars, parseVars, saveVars, concVars, moreVars>>
besideCite == <<runVars, parseVars, saveVars, concVars, moreVars>>
besideParse == <<runVars, citeVars, saveVars, concVars, moreVars>>
besideSave == <<runVars, citeVars, parseVars, concVars, moreVars>>
besideConc == <<runVars, citeVars, parseVars, saveVars, moreVars>>
besideLog == <<runVars, citeVars, parseVars, saveVars, concVars, metricsVars, normVars>>
besideMetrics == <<runVars, citeVars, parseVars, saveVars, concVars, logVars, normVars>>
besideNorm == <<runVars, citeVars, parseVars, saveVars, concVars, logVars, metricsVars>>
vars == <<runVars, citeVars, parseVars, saveVars, concVars, moreVars>>

\* ----------------------------------------------------------------- values
None == [kind |-> "None", marker |-> FALSE, cites |-> FALSE]
NoContent == [kind |-> "unset", marker |-> FALSE, cites |-> FALSE]
\* f"## {section_title}\n\nNo references cited in the report."
NoReferences == [kind |-> "no_references", marker |-> FALSE, cites |-> FALSE]
\* f"## {section_title}\n\n*Content generation failed. Please try again.*"
EmptyPlaceholder == [kind |-> "generation_failed", marker |-> TRUE, cites |-> FALSE]
\* f"## {section_title}\n\n*Error generating content: {str(e)}*"
ErrorPlaceholder == [kind |-> "error_generating", marker |-> TRUE, cites |-> FALSE]
\* normalised text of a successful section response; cites: has a [n] citation
Generated(c) == [kind |-> "generated", marker |-> FALSE, cites |-> c]
\* text of a successful polishing response
Polished(m, c) == [kind |-> "polished", marker |-> m, cites |-> c]

Message(role, op) == [role |-> role, op |-> op]

TitleLists == UNION {[1..n -> Titles] : n \in 0..MaxSections}

RECURSIVE LastN(_, _)
LastN(s, n) == IF Len(s) <= n THEN s ELSE LastN(Tail(s), n)


\* ------------------------------------------------------ generate_content
\* for attempt in range(max_retries)
LoopContinues(a, n) == a < n

\* off by one: the last failed attempt is retried instead of raised
HasAttemptsLeft_OffByOne(a, n) == a < n

\* if attempt < self.config['max_retries'] - 1: sleep and retry, else raise
HasAttemptsLeft(a, n) == a < n - 1

\* the loop variable does not advance
NextAttempt_Same(a) == a

\* range(max_retries) hands out the next attempt number
NextAttempt(a) == a + 1

\* self.add_to_history("user", prompt) followed by entry into the retry loop
BeginCall(op) ==
    /\ conversation_history' = Append(conversation_history, Message("user", op))
    /\ attempt' = 0
    /\ callStatus' = "running"
    /\ outcomes' = <<>>

\* a step of the orchestrator that issues no generation call: the finished
\* call's frame (its loop variable, its attempts) is gone
NoCall ==
    /\ callStatus' = "idle"
    /\ attempt' = 0
    /\ outcomes' = <<>>
    /\ UNCHANGED conversation_history

\* conversation_{report_id}.json: absent, not readable as JSON, or a list of
\* {'role': ..., 'parts': [...]} items
HistoryFile(state, data) == [state |-> state, data |-> data]
NoHistoryFile == HistoryFile("missing", <<>>)
CorruptHistoryFile == HistoryFile("corrupt", <<>>)
\* JSON, but an item without 'role' or 'parts': the comprehension raises
MalformedHistoryFile == HistoryFile("malformed", <<>>)
JsonFile(data) == HistoryFile("json", data)

\* {'role': content.role, 'parts': [part.text for part in content.parts]}
Serialize(history) ==
    [j \in DOMAIN history |-> [role |-> history[j].role, parts |-> <<history[j].op>>]]

\* types.Content(role=item['role'], parts=[Part.from_text(text=part) ...])
Deserialize(history_data) ==
    [j \in DOMAIN history_data |->
        Message(history_data[j].role, history_data[j].parts[1])]

\* save_conversation_history: skipped without save_history or report id;
\* a failing write is logged and swallowed, and nothing of the run depends on
\* it: the run takes the write to succeed, and what failed writes leave on
\* disk is an input of the resumed run
SaveConversationHistory(history, written) ==
    IF save_history /\ current_report_id # "None" /\ written
    THEN persisted' = JsonFile(Serialize(history))
    ELSE UNCHANGED persisted

\* one attempt whose response carries candidates with content parts
AttemptSucceeds ==
    /\ impl = "generator"
    /\ callStatus = "running"
    /\ LoopContinues(attempt, max_retries)
    /\ sent' = conversation_history
    /\ outcomes' = Append(outcomes, "ok")
    /\ conversation_history' = Append(conversation_history, Message("model", pc))
    /\ SaveConversationHistory(conversation_history', TRUE)
    /\ callStatus' = "ok"
    /\ UNCHANGED <<attempt, current_report_id, configVars, loopVars, pc>>
    /\ UNCHANGED besideRun

\* the prompt is added again by every attempt that fails
HistoryAfterFailure_PromptPerAttempt(history, op) == Append(history, Message("user", op))

\* the except branch logs, sleeps or raises: the history is not touched
HistoryAfterFailure(history, op) == history

\* one attempt that raises: the client call fails, or the response has no
\* candidates/content/parts and "Empty response from model" is raised
AttemptFails ==
    /\ impl = "generator"
    /\ callStatus = "running"
    /\ LoopContinues(attempt, max_retries)
    /\ sent' = conversation_history
    /\ outcomes' = Append(outcomes, "fail")
    /\ IF HasAttemptsLeft(attempt, max_retries)
       THEN attempt' = NextAttempt(attempt) /\ callStatus' = "running"
       ELSE attempt' = attempt /\ callStatus' = "raised"
    /\ conversation_history' = HistoryAfterFailure(conversation_history, pc)
    /\ UNCHANGED <<current_report_id, persisted, configVars, loopVars, pc>>
    /\ UNCHANGED besideRun

\* the loop body never ran: the function falls off its end and returns None
LoopFallsThrough ==
    /\ callStatus = "running"
    /\ ~LoopContinues(attempt, max_retries)
    /\ callStatus' = "none"
    /\ UNCHANGED <<attempt, outcomes, sent, histVars, configVars, loopVars, pc>>
    /\ UNCHANGED besideRun

\* -------------------------------------------------------- process_report
\* resume_from is None: fresh history and report id, then the TOC call
StartReport ==
    /\ impl = "generator"
    /\ pc = "init"
    /\ resume_from = "None"
    /\ conversation_history' = <<Message("user", "toc")>>
    /\ current_report_id' = "new"
    /\ attempt' = 0
    /\ callStatus' = "running"
    /\ outcomes' = <<>>
    /\ pc' = "toc"
    /\ UNCHANGED <<persisted, sent, configVars, loopVars>>
    /\ UNCHANGED besideRun

\* the loaded records are kept after what was in memory
RestoredHistory_Merged(memory, history_data) == memory \o Deserialize(history_data)

\* self.conversation_history = [types.Content(...) for item in history_data]
RestoredHistory(memory, history_data) == Deserialize(history_data)

\* every file is taken to load
Loadable_Always(file) == TRUE

\* the file exists, is read as JSON, and every item has its role and parts
Loadable(file) == file.state = "json"

\* resume_from given and load_conversation_history returned True
LoadHistory ==
    /\ impl = "generator"
    /\ pc = "init"
    /\ resume_from # "None"
    /\ Loadable(persisted)
    /\ conversation_history' = RestoredHistory(conversation_history, persisted.data)
    /\ current_report_id' = resume_from
    /\ pc' = "loaded"
    /\ UNCHANGED <<persisted, callVars, configVars, loopVars>>
    /\ UNCHANGED besideRun

\* no file, or a file that cannot be read: return [], ""
LoadFails ==
    /\ impl = "generator"
    /\ pc = "init"
    /\ resume_from # "None"
    /\ ~Loadable(persisted)
    /\ toc' = "empty"
    /\ processed_sections' = <<>>
    /\ pc' = "done"
    /\ UNCHANGED <<histVars, callVars, configVars,
                   section_titles, idx, content, genOutcome>>
    /\ UNCHANGED besideRun

\* after a successful load: generate_table_of_contents is called
ResumedTocCall ==
    /\ impl = "generator"
    /\ pc = "loaded"
    /\ BeginCall("toc")
    /\ pc' = "toc"
    /\ UNCHANGED <<current_report_id, persisted, sent, configVars, loopVars>>
    /\ UNCHANGED besideRun

\* generate_table_of_contents returned; extract_sections_from_toc starts
TocFinished ==
    /\ impl = "generator"
    /\ pc = "toc"
    /\ callStatus \in {"ok", "none"}
    /\ toc' = IF callStatus = "ok" THEN "text" ELSE "None"
    /\ BeginCall("extract")
    /\ pc' = "extract"
    /\ UNCHANGED <<current_report_id, persisted, sent, configVars,
                   section_titles, idx, content, processed_sections, genOutcome>>
    /\ UNCHANGED besideRun

\* the TOC call exhausted its retries: the exception leaves process_report
TocRaised ==
    /\ impl = "generator"
    /\ pc = "toc"
    /\ callStatus = "raised"
    /\ pc' = "failed"
    /\ NoCall
    /\ UNCHANGED <<current_report_id, persisted, sent, configVars, loopVars>>
    /\ UNCHANGED besideRun

\* a single title is treated as no section at all
NoSections_SingleTitle(titles) == Len(titles) <= 1

\* if not section_titles: return [], toc
NoSections(titles) == titles = <<>>

\* extract_sections_from_toc produced its title list, from the response or
\* (ValueError, exhausted retries) from the regex scan of the TOC text
ExtractFinished ==
    /\ impl = "generator"
    /\ pc = "extract"
    /\ callStatus \in {"ok", "raised"}
    /\ \E titles \in TitleLists :
         /\ section_titles' = titles
         /\ IF NoSections(titles)
            THEN pc' = "done" /\ idx' = idx
            ELSE pc' = "section_start" /\ idx' = 1
    /\ processed_sections' = <<>>
    /\ NoCall
    /\ UNCHANGED <<current_report_id, persisted, sent, configVars,
                   toc, content, genOutcome>>
    /\ UNCHANGED besideRun

\* the extraction call returned None: response.split raises, and the regex
\* fallback raises TypeError on the None TOC, which leaves process_report
ExtractTypeError ==
    /\ impl = "generator"
    /\ pc = "extract"
    /\ callStatus = "none"
    /\ pc' = "failed"
    /\ NoCall
    /\ UNCHANGED <<current_report_id, persisted, sent, configVars, loopVars>>
    /\ UNCHANGED besideRun

\* a section that carries an error placeholder is left out of the result
AppendSection_DropFailed(sections, title, c) ==
    IF c.marker THEN sections ELSE Append(sections, [title |-> title, content |-> c])

\* processed_sections.append(ReportSection(title=section_title, content=...))
AppendSection(sections, title, c) ==
    Append(sections, [title |-> title, content |-> c])

\* the loop stays on the section it has just finished
NextSection_Same(i) == i

\* for i, section_title in enumerate(section_titles, 1): the next i
NextSection(i) == i + 1

\* the rest of the loop body once generate_section_content returned c
AfterGeneration(c) ==
    LET title == section_titles[idx]
        isLast == idx = Len(section_titles)
    IN  IF title \in SkippedTitles \/ isLast
        THEN /\ processed_sections' = AppendSection(processed_sections, title, c)
             /\ content' = NoContent
             /\ idx' = NextSection(idx)
             /\ pc' = IF isLast THEN "done" ELSE "section_start"
             /\ NoCall
        ELSE /\ content' = c
             /\ BeginCall("polish")
             /\ pc' = "polish"
             /\ UNCHANGED <<processed_sections, idx>>

\* content[:200] / re.findall on a section whose content is None
ContextRaises ==
    LET recent == LastN(processed_sections, ContextSections)
    IN  \/ \E j \in DOMAIN recent : recent[j].content = None
        \/ /\ idx = Len(section_titles)
           /\ \E j \in DOMAIN processed_sections : processed_sections[j].content = None

\* citations are taken to be there whatever the previous sections hold
HasCitations_Always == TRUE

\* re.findall(r'\[(\d+)\]', section.content) over all previous sections
HasCitations == \E j \in DOMAIN processed_sections : processed_sections[j].content.cites

\* generate_section_content up to its generation call
SectionStart ==
    /\ impl = "generator"
    /\ pc = "section_start"
    /\ IF ContextRaises
       THEN /\ AfterGeneration(ErrorPlaceholder)
            /\ genOutcome' = Append(genOutcome, "context_error")
       ELSE IF idx = Len(section_titles) /\ ~HasCitations
       THEN /\ AfterGeneration(NoReferences)
            /\ genOutcome' = Append(genOutcome, "no_call")
       ELSE /\ BeginCall("section")
            /\ pc' = "section"
            /\ UNCHANGED <<content, processed_sections, idx, genOutcome>>
    /\ UNCHANGED <<current_report_id, persisted, sent, configVars,
                   toc, section_titles>>
    /\ UNCHANGED besideRun

\* the section call returned text
SectionGenerated ==
    /\ impl = "generator"
    /\ pc = "section"
    /\ callStatus = "ok"
    /\ \E empty \in BOOLEAN, c \in BOOLEAN :
         IF empty
         THEN /\ AfterGeneration(EmptyPlaceholder)
              /\ genOutcome' = Append(genOutcome, "empty")
         ELSE /\ AfterGeneration(Generated(c))
              /\ genOutcome' = Append(genOutcome, "ok")
    /\ UNCHANGED <<current_report_id, persisted, sent, configVars,
                   toc, section_titles>>
    /\ UNCHANGED besideRun

\* the section call raised after its last attempt, or returned None
SectionFailed ==
    /\ impl = "generator"
    /\ pc = "section"
    /\ callStatus \in {"raised", "none"}
    /\ IF callStatus = "raised"
       THEN /\ genOutcome' = Append(genOutcome, "raised")
            /\ AfterGeneration(ErrorPlaceholder)
       ELSE /\ genOutcome' = Append(genOutcome, "none")
            /\ AfterGeneration(EmptyPlaceholder)
    /\ UNCHANGED <<current_report_id, persisted, sent, configVars,
                   toc, section_titles>>
    /\ UNCHANGED besideRun

\* the polishing call finished: polished text, or the unpolished content
PolishFinished ==
    /\ impl = "generator"
    /\ pc = "polish"
    /\ callStatus \in {"ok", "raised", "none"}
    /\ \E m \in (IF content.marker THEN BOOLEAN ELSE {FALSE}), c \in BOOLEAN :
         LET final == CASE callStatus = "ok" -> Polished(m, c)
                        [] callStatus = "raised" -> content
                        [] OTHER -> None
         IN  processed_sections' =
                 AppendSection(processed_sections, section_titles[idx], final)
    /\ content' = NoContent
    /\ idx' = NextSection(idx)
    /\ pc' = "section_start"
    /\ NoCall
    /\ UNCHANGED <<current_report_id, persisted, sent, configVars,
                   toc, section_titles, genOutcome>>
    /\ UNCHANGED besideRun

\* ------------------------------------------------- main1.py orchestration
\* entry into the wrapper of retry_with_backoff: delay and attempt reset
BeginWrappedCall ==
    /\ attempt' = 0
    /\ callStatus' = "running"
    /\ outcomes' = <<>>

\* the contents a wrapped generation function hands to the model:
\* table_of_contents_prompt and generate_section_content append the user
\* prompt to state.contents on every invocation, extract_table_of_contents
\* and polish_content build a list of their own
WrappedContents ==
    CASE pc \in {"toc", "section"} ->
             Append(conversation_history, Message("user", pc))
      [] pc = "extract" ->
             <<Message("user", "toc"), Message("model", "toc"), Message("user", "extract")>>
      [] OTHER -> <<Message("user", "polish")>>

\* func(*args, **kwargs) returned
WrappedAttemptSucceeds ==
    /\ impl = "main1"
    /\ callStatus = "running"
    /\ LoopContinues(attempt, max_retries)
    /\ sent' = WrappedContents
    /\ outcomes' = Append(outcomes, "ok")
    /\ conversation_history' =
           IF pc \in {"toc", "section"}
           THEN Append(WrappedContents, Message("model", pc))
           ELSE conversation_history
    /\ callStatus' = "ok"
    /\ UNCHANGED <<attempt, current_report_id, persisted, configVars, loopVars, pc>>
    /\ UNCHANGED besideRun

\* func(*args, **kwargs) raised in or after the model call
WrappedAttemptFails ==
    /\ impl = "main1"
    /\ callStatus = "running"
    /\ LoopContinues(attempt, max_retries)
    /\ sent' = WrappedContents
    /\ outcomes' = Append(outcomes, "fail")
    /\ conversation_history' =
           IF pc \in {"toc", "section"} THEN WrappedContents ELSE conversation_history
    /\ IF HasAttemptsLeft(attempt, max_retries)
       THEN attempt' = NextAttempt(attempt) /\ callStatus' = "running"
       ELSE attempt' = attempt /\ callStatus' = "raised"
    /\ UNCHANGED <<current_report_id, persisted, configVars, loopVars, pc>>
    /\ UNCHANGED besideRun

\* main(): ReportState(), request id, then table_of_contents_prompt
MainStart ==
    /\ impl = "main1"
    /\ pc = "init"
    /\ conversation_history' = <<>>
    /\ current_report_id' = "new"
    /\ BeginWrappedCall
    /\ pc' = "toc"
    /\ UNCHANGED <<persisted, sent, configVars, loopVars>>
    /\ UNCHANGED besideRun

\* raise last_exception: nothing in main() catches it
MainCallRaised ==
    /\ impl = "main1"
    /\ callStatus = "raised"
    /\ pc' = "failed"
    /\ genOutcome' = IF pc = "section" THEN Append(genOutcome, "raised") ELSE genOutcome
    /\ NoCall
    /\ UNCHANGED <<current_report_id, persisted, sent, configVars,
                   toc, section_titles, idx, content, processed_sections>>
    /\ UNCHANGED besideRun

\* table_of_contents_prompt returned; extract_table_of_contents starts
MainTocFinished ==
    /\ impl = "main1"
    /\ pc = "toc"
    /\ callStatus = "ok"
    /\ toc' = "text"
    /\ BeginWrappedCall
    /\ pc' = "extract"
    /\ UNCHANGED <<histVars, sent, configVars,
                   section_titles, idx, content, processed_sections, genOutcome>>
    /\ UNCHANGED besideRun

\* sections_to_generate = [sections[1]] if demo_mode else sections
SectionsToGenerate(sections) ==
    IF demo_mode THEN <<sections[2]>> ELSE sections

\* parse_table_of_contents, the choice of the sections to generate and the
\* entry into the section loop
MainExtractFinished ==
    /\ impl = "main1"
    /\ pc = "extract"
    /\ callStatus = "ok"
    /\ \E hasMarker \in BOOLEAN, sections \in TitleLists :
         IF ~hasMarker \/ (demo_mode /\ Len(sections) < 2)
         THEN \* ValueError("Invalid response format") / IndexError
              /\ pc' = "failed"
              /\ NoCall
              /\ UNCHANGED <<section_titles, idx>>
         ELSE /\ section_titles' = SectionsToGenerate(sections)
              /\ IF section_titles' = <<>>
                 THEN pc' = "done" /\ idx' = idx /\ NoCall
                 ELSE pc' = "section" /\ idx' = 1 /\ BeginWrappedCall
                      /\ UNCHANGED conversation_history
    /\ processed_sections' = <<>>
    /\ UNCHANGED <<current_report_id, persisted, sent, configVars,
                   toc, content, genOutcome>>
    /\ UNCHANGED besideRun

\* generate_section_content returned; polish_content starts
MainSectionFinished ==
    /\ impl = "main1"
    /\ pc = "section"
    /\ callStatus = "ok"
    /\ \E c \in BOOLEAN : content' = Generated(c)
    /\ genOutcome' = Append(genOutcome, "ok")
    /\ BeginWrappedCall
    /\ pc' = "polish"
    /\ UNCHANGED <<histVars, sent, configVars,
                   toc, section_titles, idx, processed_sections>>
    /\ UNCHANGED besideRun

\* polish_content returned: sections_content.append(polished_content)
MainPolishFinished ==
    /\ impl = "main1"
    /\ pc = "polish"
    /\ callStatus = "ok"
    /\ \E c \in BOOLEAN :
         processed_sections' =
             AppendSection(processed_sections, section_titles[idx], Polished(FALSE, c))
    /\ content' = NoContent
    /\ idx' = NextSection(idx)
    /\ IF idx = Len(section_titles)
       THEN pc' = "done" /\ NoCall
       ELSE pc' = "section" /\ BeginWrappedCall /\ UNCHANGED conversation_history
    /\ UNCHANGED <<current_report_id, persisted, sent, configVars,
                   toc, section_titles, genOutcome>>
    /\ UNCHANGED besideRun

\* ============================================================ citations
\* section_generator.py generate_section_content, from the response on: the
\* grounding segments are annotated in the text and the section's reference
\* block is built.  A text is a sequence of tokens.  A token carries the
\* literal it stands for (c, and for an anchor its section and source number)
\* and pos, its place in the generated text (0 for html the rewriting put in);
\* pos takes no part in matching.

Chars == {"a", "b"}
Space == " "
SectionNumbers == {2}
\* generate_section_content of main.py and of section_generator.py
Rewriters == {"main", "section_generator"}

Char(c, p) == [c |-> c, sec |-> 0, idx |-> 0, pos |-> p]
Lit(t) == <<t.c, t.sec, t.idx>>

\* response.text, character by character
ResponseText(w) == [j \in 1..Len(w) |-> Char(w[j], j)]
Texts == UNION {[1..n -> Chars] : n \in 0..MaxTextLen}

\* support.segment.text as the service reports it, possibly padded
SegmentTexts == {<<"a", "b">>, <<"b", "b">>, <<" ", "a">>, <<"b">>}
\* support.grounding_chunk_indices, 0-based (None reads as the empty list)
IndexLists == {<<>>, <<0>>, <<0, 1>>}
Supports == [segment : SegmentTexts, grounding_chunk_indices : IndexLists]
SupportLists == UNION {[1..n -> Supports] : n \in 0..MaxSupports}
\* grounding_chunks: chunk.web is set or not (None reads as the empty list)
ChunkLists == {<<>>, <<[web |-> TRUE]>>, <<[web |-> TRUE], [web |-> FALSE]>>}

\* str.strip()
RECURSIVE Lstrip(_)
Lstrip(s) == IF s # <<>> /\ Head(s) = Space THEN Lstrip(Tail(s)) ELSE s
RECURSIVE Rstrip(_)
Rstrip(s) ==
    IF s # <<>> /\ s[Len(s)] = Space THEN Rstrip(SubSeq(s, 1, Len(s) - 1)) ELSE s
Strip(s) == Rstrip(Lstrip(s))

\* key=lambda s: len(s.segment.text)
SortKey(support) == Len(support.segment)

\* sorted(grounding_supports, key=..., reverse=True): stable, so supports of
\* equal key keep the order the service gave them
RECURSIVE Sorted(_)
Sorted(s) ==
    IF s = <<>> THEN <<>>
    ELSE LET rest == Sorted(SubSeq(s, 1, Len(s) - 1))
             e == s[Len(s)]
             n == Cardinality({j \in 1..Len(rest) : SortKey(rest[j]) >= SortKey(e)})
         IN SubSeq(rest, 1, n) \o <<e>> \o SubSeq(rest, n + 1, Len(rest))

\* f'<sup><a href="#ref-section-{s}-{i+1}">[{s}.{i+1}]</a></sup>': the tag
\* names are letters of the text like any other; the anchor token stands for
\*  href="#ref-section-{s}-{i+1}">[{s}.{i+1}]</
Superscript_link(s, i) ==
    << Char("<sup><", 0), Char("a", 0),
       [c |-> "href", sec |-> s, idx |-> i + 1, pos |-> 0],
       Char("a", 0), Char("></sup>", 0) >>

\* the indices that get a link.  main.py reads grounding_chunks[i] in the try,
\* so an index past the list raises IndexError and is skipped;
\* section_generator.py reads nothing in its try and links every index
LinkedIndices(r, indices, chunks) ==
    IF r = "main" THEN SelectSeq(indices, LAMBDA i : i < Len(chunks)) ELSE indices

\* "".join(superscript_links)
RECURSIVE Superscript(_, _)
Superscript(s, indices) ==
    IF indices = <<>> THEN <<>>
    ELSE Superscript_link(s, Head(indices)) \o Superscript(s, Tail(indices))

\* the pattern re.escape(segment_text) matches t at offset p
MatchesAt(t, pattern, p) ==
    /\ p + Len(pattern) <= Len(t)
    /\ \A j \in 1..Len(pattern) : Lit(t[p + j]) = <<pattern[j], 0, 0>>

Hits(pattern, t) == {p \in 0..Len(t) : MatchesAt(t, pattern, p)}

ReSub_Last(pattern, superscript, t) ==
    LET hits == Hits(pattern, t)
        p == CHOOSE q \in hits : \A r \in hits : r <= q
    IN IF hits = {} THEN t
       ELSE SubSeq(t, 1, p + Len(pattern)) \o superscript
                \o SubSeq(t, p + Len(pattern) + 1, Len(t))

\* re.sub(pattern, f"{segment_text}{superscript}", text, count=1): the leftmost
\* match is replaced by itself followed by the links
ReSub(pattern, superscript, t) ==
    LET hits == Hits(pattern, t)
        p == CHOOSE q \in hits : \A r \in hits : q <= r
    IN IF hits = {} THEN t
       ELSE SubSeq(t, 1, p + Len(pattern)) \o superscript
                \o SubSeq(t, p + Len(pattern) + 1, Len(t))

\* section_references: one reference-item per chunk,
\* id="ref-section-{s}-{idx+1}", with the link or "No web metadata available."
SectionReferences(s, chunks) ==
    [j \in 1..Len(chunks) |-> [sec |-> s, idx |-> j, web |-> chunks[j].web]]

HasGrounding_SupportsOnly(supports, chunks) == supports # <<>>

\* if grounding_supports and grounding_chunks:
HasGrounding(supports, chunks) == supports # <<>> /\ chunks # <<>>

\* the else branch: the text and the empty report_references are returned
NoGrounding ==
    /\ cpc = "response"
    /\ ~HasGrounding(grounding_supports, grounding_chunks)
    /\ cpc' = "returned"
    /\ UNCHANGED <<rewriter, section_number, gen_text, text, grounding_supports, grounding_chunks,
                   sorted_supports, support_pos, report_references>>
    /\ UNCHANGED besideCite

SortSupports ==
    /\ cpc = "response"
    /\ HasGrounding(grounding_supports, grounding_chunks)
    /\ sorted_supports' = Sorted(grounding_supports)
    /\ support_pos' = 1
    /\ cpc' = "supports"
    /\ UNCHANGED <<rewriter, section_number, gen_text, text, grounding_supports, grounding_chunks,
                   report_references>>
    /\ UNCHANGED besideCite

\* one turn of "for support in sorted_supports"
AnnotateSupport ==
    /\ cpc = "supports"
    /\ support_pos <= Len(sorted_supports)
    /\ LET support == sorted_supports[support_pos]
           segment_text == Strip(support.segment)
           indices == support.grounding_chunk_indices
           links == LinkedIndices(rewriter, indices, grounding_chunks)
       IN text' = IF indices = <<>> \/ links = <<>> THEN text
                  ELSE ReSub(segment_text, Superscript(section_number, links), text)
    /\ support_pos' = support_pos + 1
    /\ UNCHANGED <<rewriter, cpc, section_number, gen_text, grounding_supports, grounding_chunks,
                   sorted_supports, report_references>>
    /\ UNCHANGED besideCite

\* after the loop: the reference block is appended and the function returns
BuildReferences ==
    /\ cpc = "supports"
    /\ support_pos > Len(sorted_supports)
    /\ report_references' =
           Append(report_references, SectionReferences(section_number, grounding_chunks))
    /\ cpc' = "returned"
    /\ UNCHANGED <<rewriter, section_number, gen_text, text, grounding_supports, grounding_chunks,
                   sorted_supports, support_pos>>
    /\ UNCHANGED besideCite

\* ============================================================ TOC parsing
\* extract_sections_from_toc (generator.py) and parse_table_of_contents
\* (main1.py), on texts taken line by line.

TitleLine == "TITLE: Report"
SectionsMarker == "SECTIONS:"
Blank == ""
RomanLines == {"I. Market Overview", "II. References"}
\* what follows the numeral, the dot and the blanks of a line of RomanLines
AfterNumeral(l) == IF l = "I. Market Overview" THEN "Market Overview" ELSE "References"
\* "Premium Credit Card Market Analysis Report"
DefaultTitle == <<"Premium Credit Card Market Analysis Report">>
Parsers == {"generator", "main1"}

\* the lines a TOC text and an extraction response are made of
TocLines == RomanLines \cup {"- Scope", Blank}
ExtractionLines == {TitleLine, SectionsMarker, "I. Market Overview", "Market Overview", Blank}
LinesOver(alphabet) == UNION {[1..n -> alphabet] : n \in 0..MaxLines}

\* str.strip() on a block of lines: the blank lines at both ends go
RECURSIVE StripLines(_)
StripLines(s) ==
    IF s = <<>> THEN s
    ELSE IF Head(s) = Blank THEN StripLines(Tail(s))
    ELSE IF s[Len(s)] = Blank THEN StripLines(SubSeq(s, 1, Len(s) - 1))
    ELSE s

\* where the text holds 'SECTIONS:'; split gives one part more than that
MarkerAt(s) == {j \in DOMAIN s : s[j] = SectionsMarker}

\* title_line[6:].strip() if title_line.startswith('TITLE:') else the default
ParsedTitle(head) ==
    LET title_line == StripLines(head)
    IN IF title_line # <<>> /\ Head(title_line) = TitleLine
       THEN <<"Report">> \o Tail(title_line)
       ELSE DefaultTitle

\* [line.strip() for line in parts[1].split('\n') if line.strip()]
ParsedSections(rest) ==
    LET kept == SelectSeq(rest, LAMBDA l : l # Blank)
    IN [j \in DOMAIN kept |-> <<kept[j]>>]

\* re.findall(r'[IVX]+\.\s+(.*?)(?=\n[IVX]+\.|\Z)', toc, re.DOTALL), each
\* match stripped: a match runs from a numbered line to the next one
RomanAt(t) == {j \in DOMAIN t : t[j] \in RomanLines}
MatchFrom(t, i) ==
    LET later == {j \in RomanAt(t) : j > i}
        next == IF later = {} THEN Len(t) + 1
                ELSE CHOOSE j \in later : \A m \in later : j <= m
    IN StripLines(<<AfterNumeral(t[i])>> \o SubSeq(t, i + 1, next - 1))
RegexScan(t) ==
    [k \in 1..Cardinality(RomanAt(t)) |->
        MatchFrom(t, CHOOSE j \in RomanAt(t) :
                         Cardinality({m \in RomanAt(t) : m <= j}) = k)]

\* the response splits in two at its one 'SECTIONS:'
ParseReturns ==
    /\ ppc = "input"
    /\ Cardinality(MarkerAt(extraction_text)) = 1
    /\ LET p == CHOOSE j \in MarkerAt(extraction_text) : TRUE
       IN /\ parsed_title' = ParsedTitle(SubSeq(extraction_text, 1, p - 1))
          /\ parsed_sections' =
                 ParsedSections(SubSeq(extraction_text, p + 1, Len(extraction_text)))
    /\ ppc' = "returned"
    /\ UNCHANGED <<parser, toc_text, extraction_text>>
    /\ UNCHANGED besideParse

\* generator.py: ValueError("Invalid response format") is caught and the
\* TOC text is scanned instead
ParseFallsBack ==
    /\ ppc = "input"
    /\ parser = "generator"
    /\ Cardinality(MarkerAt(extraction_text)) # 1
    /\ parsed_title' = DefaultTitle
    /\ parsed_sections' = RegexScan(toc_text)
    /\ ppc' = "returned"
    /\ UNCHANGED <<parser, toc_text, extraction_text>>
    /\ UNCHANGED besideParse

\* main1.py: ValueError("Invalid response format") leaves the parser, and
\* main() with it
ParseRaises ==
    /\ ppc = "input"
    /\ parser = "main1"
    /\ Cardinality(MarkerAt(extraction_text)) # 1
    /\ ppc' = "raised"
    /\ UNCHANGED <<parser, toc_text, extraction_text, parsed_title, parsed_sections>>
    /\ UNCHANGED besideParse

\* ============================================================== saving
\* save_report_files (file_output.py, called by main1.main) and
\* ReportGenerator.save_to_markdown: the Markdown document is assembled and
\* written, the HTML file is written, the PDF is rendered.  A text is a
\* sequence of lines; a line records its leading whitespace, whether a '#'
\* follows it, and the rest.  A document is the sequence of the pieces that
\* were concatenated, each piece followed by "\n\n".
MaxReferences == 2
Savers == {"generator", "file_output"}

Line(indent, heading, txt) == [indent |-> indent, heading |-> heading, txt |-> txt]
BlankLine == Line(0, FALSE, "")
IsBlank(l) == ~l.heading /\ l.txt = ""
\* str.strip() at the start of a line
StripLine(l) == [l EXCEPT !.indent = 0]
\* str.startswith('#')
StartsWithHash(l) == l.indent = 0 /\ l.heading

RECURSIVE DropLeadingBlank(_)
DropLeadingBlank(ls) ==
    IF ls # <<>> /\ IsBlank(Head(ls)) THEN DropLeadingBlank(Tail(ls)) ELSE ls

RECURSIVE DropTrailingBlank(_)
DropTrailingBlank(ls) ==
    IF ls # <<>> /\ IsBlank(ls[Len(ls)])
    THEN DropTrailingBlank(SubSeq(ls, 1, Len(ls) - 1))
    ELSE ls

\* '\n'.join(lines).strip(): blank lines at both ends and the leading
\* whitespace of the first line left go
StripText(ls) ==
    LET kept == DropTrailingBlank(DropLeadingBlank(ls))
    IN  IF kept = <<>> THEN <<BlankLine>>
        ELSE <<StripLine(Head(kept))>> \o Tail(kept)

ReportTitles == {"Premium Credit Card Market Analysis Report"}
\* contents a section can have: heading first, no heading, indented heading
SectionContents ==
    { <<Line(0, TRUE, "## Market Overview"), BlankLine, Line(0, FALSE, "Body")>>,
      <<Line(0, FALSE, "Body")>>,
      <<Line(1, TRUE, "## References"), Line(0, FALSE, "[1.1] Source"), BlankLine>> }
ContentLists == UNION {[1..n -> SectionContents] : n \in 0..MaxSections}
ReferenceEntries == {<<Line(0, FALSE, "<div id=ref-1-1>")>>, <<Line(0, FALSE, "<div id=ref-2-1>")>>}
ReferenceLists == UNION {[1..n -> ReferenceEntries] : n \in 0..MaxReferences}

\* f"# {title}\n\n[TOC]\n\n"
DocumentHead(title) == << <<Line(0, TRUE, title)>>, <<Line(0, FALSE, "[TOC]")>> >>
HorizontalRule == <<Line(0, FALSE, "---")>>
ReferencesHeading == <<Line(0, TRUE, "## References")>>

\* _generate_markdown_content: per section the first line, then the content
\* (without the first line when that line starts with '#'), then a rule
RECURSIVE GenerateMarkdownContent(_, _)
GenerateMarkdownContent(md_content, report) ==
    IF report = <<>> THEN md_content
    ELSE LET content_lines == Head(report)
             section_title == StripLine(content_lines[1])
             section_content == IF StartsWithHash(section_title)
                                THEN StripText(Tail(content_lines))
                                ELSE content_lines
         IN  GenerateMarkdownContent(
                 md_content \o <<<<section_title>>, section_content, HorizontalRule>>,
                 Tail(report))

\* save_report_files: every section, then the references block if any
CombineSections(title, sections, refs) ==
    DocumentHead(title) \o sections
        \o (IF refs # <<>> THEN <<ReferencesHeading>> \o refs ELSE <<>>)

\* html_doc = template.format(content=html_content)
HtmlDoc(md) == [template |-> "filled", content |-> md]
\* the template after the brace replacements, its {content} not filled in
Template == [template |-> "unfilled", content |-> <<>>]
NoFile == [template |-> "absent", content |-> <<>>]

\* the Markdown file is written
SaveMarkdown ==
    /\ spc = "input"
    /\ markdown_content' =
           IF saver = "generator"
           THEN GenerateMarkdownContent(DocumentHead(report_title), sections_content)
           ELSE CombineSections(report_title, sections_content, references)
    /\ spc' = "markdown"
    /\ UNCHANGED <<saver, report_title, sections_content, references,
                   template_loaded, html_file, pdf_file, deliverable>>
    /\ UNCHANGED besideSave

\* save_to_markdown: save_file(self._get_html_template(html_content), ...);
\* a template that cannot be loaded raises out of save_to_markdown
SaveHtmlOfGenerator ==
    /\ saver = "generator"
    /\ spc = "markdown"
    /\ IF template_loaded
       THEN html_file' = HtmlDoc(markdown_content) /\ spc' = "html"
       ELSE html_file' = html_file /\ spc' = "raised"
    /\ UNCHANGED <<saver, report_title, sections_content, references,
                   template_loaded, markdown_content, pdf_file, deliverable>>
    /\ UNCHANGED besideSave

\* save_report_files: f.write(template), with the loaded or the fallback
\* template
SaveHtmlOfFileOutput ==
    /\ saver = "file_output"
    /\ spc = "markdown"
    /\ html_file' = Template
    /\ spc' = "html"
    /\ UNCHANGED <<saver, report_title, sections_content, references,
                   template_loaded, markdown_content, pdf_file, deliverable>>
    /\ UNCHANGED besideSave

\* pdfkit returned
PdfRendered ==
    /\ spc = "html"
    /\ pdf_file' = "written"
    /\ deliverable' = IF saver = "generator" THEN "md_html_pdf" ELSE "pdf"
    /\ spc' = "returned"
    /\ UNCHANGED <<saver, report_title, sections_content, references,
                   template_loaded, markdown_content, html_file>>
    /\ UNCHANGED besideSave

\* pdfkit raised, save_to_markdown: logged and raised again
PdfRaisedInGenerator ==
    /\ saver = "generator"
    /\ spc = "html"
    /\ pdf_file' = "failed"
    /\ spc' = "raised"
    /\ UNCHANGED <<saver, report_title, sections_content, references,
                   template_loaded, markdown_content, html_file, deliverable>>
    /\ UNCHANGED besideSave

\* pdfkit raised, save_report_files: return html_file
PdfRaisedInFileOutput ==
    /\ saver = "file_output"
    /\ spc = "html"
    /\ pdf_file' = "failed"
    /\ deliverable' = "html"
    /\ spc' = "returned"
    /\ UNCHANGED <<saver, report_title, sections_content, references,
                   template_loaded, markdown_content, html_file>>
    /\ UNCHANGED besideSave

SaveIdle ==
    /\ saver = "file_output"
    /\ spc = "idle"
    /\ report_title = ""
    /\ sections_content = <<>>
    /\ references = <<>>
    /\ template_loaded = TRUE
    /\ markdown_content = <<>>
    /\ html_file = NoFile
    /\ pdf_file = "absent"
    /\ deliverable = "none"

\* ====================================================== concurrent runs
\* two calls of main1.main() in flight at once, each with a request id of
\* its own.  main() builds its ReportState and hands it to every helper;
\* what a run appends carries `by`, the run that appended it.  (main.py keeps
\* the same four values in module globals; it is a script, one run per
\* process.)
MaxCallsPerRun == 2
Runs == {1, 2}
RequestId(r) == IF r = 1 THEN "20240101_aaaaaaaa" ELSE "20240101_bbbbbbbb"

\* every run works on the same module-level state
StateOf_ModuleGlobal(r) == 1

\* state = ReportState(): the object the run r works on
StateOf(r) == r

\* ReportState.__init__, then state.current_request_id = request_id
NewReportState(request_id) ==
    [token_metrics |-> <<>>, contents |-> <<>>, report_references |-> <<>>,
     current_request_id |-> request_id]

\* main(): state = ReportState(); state.current_request_id = request_id
ConcStart(r) ==
    /\ run_pc[r] = "idle"
    /\ report_states' =
           [report_states EXCEPT ![StateOf(r)] = NewReportState(RequestId(r))]
    /\ run_pc' = [run_pc EXCEPT ![r] = "running"]
    /\ UNCHANGED saved_documents
    /\ UNCHANGED besideConc

\* one generation step of main(): the prompt and the response are appended
\* to state.contents, log_token_metrics appends a metric under
\* state.current_request_id, state.report_references is extended
ConcCall(r) ==
    LET state == report_states[StateOf(r)]
    IN  /\ run_pc[r] = "running"
        /\ Len(state.token_metrics) < MaxCallsPerRun
        /\ \E cited \in BOOLEAN :
             report_states' = [report_states EXCEPT ![StateOf(r)] =
                 [state EXCEPT
                    !.contents = @ \o <<[role |-> "user", by |-> r],
                                        [role |-> "model", by |-> r]>>,
                    !.token_metrics =
                        Append(@, [request_id |-> state.current_request_id, by |-> r]),
                    !.report_references =
                        IF cited THEN Append(@, [by |-> r]) ELSE @]]
        /\ UNCHANGED <<run_pc, saved_documents>>
        /\ UNCHANGED besideConc

\* save_report_files(title, sections_content, state.report_references,
\* state.current_request_id, report_config)
ConcSave(r) ==
    LET state == report_states[StateOf(r)]
    IN  /\ run_pc[r] = "running"
        /\ saved_documents' = [saved_documents EXCEPT ![r] =
               [references |-> state.report_references,
                request_id |-> state.current_request_id]]
        /\ run_pc' = [run_pc EXCEPT ![r] = "saved"]
        /\ UNCHANGED report_states
        /\ UNCHANGED besideConc

ConcIdle ==
    /\ report_states = [slot \in Runs |-> NewReportState("None")]
    /\ run_pc = [r \in Runs |-> "idle"]
    /\ saved_documents = [r \in Runs |-> [references |-> <<>>, request_id |-> "None"]]

\* ========================================================= request log
\* the rows main1.main and its helpers write to system_log/request_{id}.csv
\* (log_request_status of main1.py, log_to_request_file of utils.py); a row
\* is taken by its status.  The wrapped helpers are called as f(client, ...).

\* n rows of one status
Rows(status, n) == [j \in 1..n |-> status]

\* main(), lines 370-400: two "initialize", eleven "config", two "info",
\* then "generating" twice
StartupRows ==
    Rows("initialize", 2) \o Rows("config", 11) \o Rows("info", 2) \o Rows("generating", 2)

\* getattr(args[0], 'current_request_id', None): args[0] is the genai client
DecoratorRequestId == "None"

\* what the decorator writes for a failed attempt
DecoratorRows(status) == IF DecoratorRequestId # "None" THEN <<status>> ELSE <<>>

\* what the wrapped function itself writes in an attempt that returns
ReturnRows(step, odd_format) ==
    CASE step = "toc" -> Rows("generating", 3)
      [] step = "extract" ->
             Rows("generating", 2)
                 \o (IF odd_format THEN <<"warning">> ELSE <<>>)
                 \o <<"generating">>
      [] step = "section" -> <<"generating">>
      [] OTHER -> Rows("polishing", 2)

\* what it writes in an attempt whose model call raises: the inner and the
\* outer except of the TOC functions each log an error, the section and
\* polish functions catch nothing
RaiseRows(step) ==
    CASE step \in {"toc", "extract"} -> Rows("generating", 2) \o Rows("error", 2)
      [] step = "section" -> <<>>
      [] OTHER -> <<"polishing">>

LoggedCalls == {"toc", "extract", "section", "polish"}

\* setup_request_logging creates the file; main() logs up to the TOC call
LogRunStarts ==
    /\ lpc = "start"
    /\ request_log' = StartupRows
    /\ lpc' = "toc"
    /\ UNCHANGED <<log_attempt, log_left>>
    /\ UNCHANGED besideLog

\* an attempt of the wrapped call returns, and main() goes on to its next call
LogAttemptReturns ==
    /\ lpc \in LoggedCalls
    /\ LoopContinues(log_attempt, DecoratorRetries)
    /\ log_attempt' = 0
    /\ \E has_title \in BOOLEAN, has_sections \in BOOLEAN, n \in 0..MaxSections :
         LET odd_format == ~(has_title /\ has_sections)
             written == request_log \o ReturnRows(lpc, odd_format)
         IN  CASE lpc = "toc" ->
                    /\ request_log' = written
                    /\ lpc' = "extract"
                    /\ log_left' = log_left
               [] lpc = "extract" ->
                    IF ~has_sections
                    THEN \* parse_table_of_contents raises ValueError
                         /\ request_log' = written
                         /\ lpc' = "invalid"
                         /\ log_left' = log_left
                    ELSE /\ request_log' =
                                written \o Rows("generating", IF n > 0 THEN 3 ELSE 2)
                         /\ lpc' = IF n > 0 THEN "section" ELSE "save"
                         /\ log_left' = n
               [] lpc = "section" ->
                    /\ request_log' = written \o <<"polishing">>
                    /\ lpc' = "polish"
                    /\ log_left' = log_left
               [] OTHER ->
                    /\ request_log' =
                           written \o Rows("generating", IF log_left > 1 THEN 2 ELSE 1)
                    /\ lpc' = IF log_left > 1 THEN "section" ELSE "save"
                    /\ log_left' = log_left - 1
    /\ UNCHANGED besideLog

\* an attempt of the wrapped call raises: retried, or raised out of main()
LogAttemptRaises ==
    /\ lpc \in LoggedCalls
    /\ LoopContinues(log_attempt, DecoratorRetries)
    /\ IF HasAttemptsLeft(log_attempt, DecoratorRetries)
       THEN /\ request_log' = request_log \o RaiseRows(lpc) \o DecoratorRows("retry")
            /\ log_attempt' = log_attempt + 1
            /\ lpc' = lpc
       ELSE /\ request_log' = request_log \o RaiseRows(lpc) \o DecoratorRows("error")
            /\ log_attempt' = 0
            /\ lpc' = "failed"
    /\ UNCHANGED log_left
    /\ UNCHANGED besideLog

\* save_report_files: three "saving" rows, then the PDF row or the fallback
LogSave ==
    /\ lpc = "save"
    /\ \E pdf_written \in BOOLEAN :
         request_log' = request_log \o Rows("saving", 3)
             \o (IF pdf_written THEN <<"saving">> ELSE <<"error", "saving">>)
    /\ lpc' = "upload"
    /\ UNCHANGED <<log_attempt, log_left>>
    /\ UNCHANGED besideLog

\* upload_to_gcs, then the end of main(): url, final metrics (the TOC calls
\* are always metered), completed
LogUpload ==
    /\ lpc = "upload"
    /\ \E uploaded \in BOOLEAN :
         IF uploaded
         THEN /\ request_log' = request_log \o Rows("uploading", 2) \o <<"url">>
                                    \o Rows("metrics", 7) \o <<"completed">>
              /\ lpc' = "done"
         ELSE /\ request_log' = request_log \o <<"uploading", "error">>
              /\ lpc' = "failed"
    /\ UNCHANGED <<log_attempt, log_left>>
    /\ UNCHANGED besideLog

LogIdle ==
    /\ request_log = <<>>
    /\ lpc = "idle"
    /\ log_attempt = 0
    /\ log_left = 0

\* ============================================================ metrics CSV
\* log_token_metrics of main1.py (append_metric_to_csv of main.py is the same
\* code): concurrent runs append to one LOGGING_CSV.  The file object buffers
\* the header and the row and writes them together when the with block closes.

MaxMetricCalls == 2

HeaderRow == [kind |-> "header", run |-> 0, call |-> 0]

MetricRow(r, k) == [kind |-> "metric", run |-> r, call |-> k]

\* what one call leaves in the file when the with block closes
WrittenRows(exists, r, k) ==
    (IF ~exists THEN <<HeaderRow>> ELSE <<>>) \o <<MetricRow(r, k)>>

\* file_exists = os.path.isfile(state.LOGGING_CSV)
MetricCheck(r) ==
    /\ mpc[r] = "check"
    /\ metric_count[r] < MaxMetricCalls
    /\ file_exists' = [file_exists EXCEPT ![r] = csv_present]
    /\ mpc' = [mpc EXCEPT ![r] = "open"]
    /\ UNCHANGED <<metrics_csv, csv_present, metric_count>>
    /\ UNCHANGED besideMetrics

\* open(state.LOGGING_CSV, 'a') creates the file when it is missing
MetricOpen(r) ==
    /\ mpc[r] = "open"
    /\ csv_present' = TRUE
    /\ mpc' = [mpc EXCEPT ![r] = "write"]
    /\ UNCHANGED <<metrics_csv, file_exists, metric_count>>
    /\ UNCHANGED besideMetrics

\* writeheader() if not file_exists, writerow(), close
MetricWrite(r) ==
    /\ mpc[r] = "write"
    /\ metrics_csv' =
           metrics_csv \o WrittenRows(file_exists[r], r, metric_count[r] + 1)
    /\ metric_count' = [metric_count EXCEPT ![r] = @ + 1]
    /\ mpc' = [mpc EXCEPT ![r] = "check"]
    /\ UNCHANGED <<csv_present, file_exists>>
    /\ UNCHANGED besideMetrics

MetricsIdle ==
    /\ metrics_csv = <<>>
    /\ csv_present = FALSE
    /\ file_exists = [r \in Runs |-> FALSE]
    /\ mpc = [r \in Runs |-> "idle"]
    /\ metric_count = [r \in Runs |-> 0]

\* ===================================================== heading clean-up
\* the tail of ReportGenerator.generate_section_content: a line is its
\* leading whitespace, the number of '#' that follow and the rest

MaxContentLines == 3

ContentLine(spaces, hashes, rest) == [spaces |-> spaces, hashes |-> hashes, rest |-> rest]

EmptyLine == ContentLine(0, 0, "")

\* f"## {section_title}"
TitleHeading == ContentLine(0, 2, "title")

\* line.startswith('#' * n)
StartsWithHashes(line, n) == line.spaces = 0 /\ line.hashes >= n

\* not line.strip()
BlankContent(line) == line.hashes = 0 /\ line.rest = ""

\* lines[0] = f"## {section_title}" unless lines[0] starts with '##'
WithTitle(lines) ==
    IF lines # <<>> /\ ~StartsWithHashes(lines[1], 2)
    THEN [lines EXCEPT ![1] = TitleHeading]
    ELSE lines

\* a blank line that follows a blank line is dropped
CleanedLines(lines) ==
    SelectSeq([j \in DOMAIN lines |->
                  [line |-> lines[j],
                   kept |-> ~(BlankContent(lines[j]) /\ j > 1 /\ BlankContent(lines[j - 1]))]],
              LAMBDA e : e.kept)

\* what the second loop appends for cleaned_lines[i]
SpacedHeading(cleaned, i) ==
    (IF i > 1 /\ ~BlankContent(cleaned[i - 1]) THEN <<EmptyLine>> ELSE <<>>)
        \o <<cleaned[i]>>
        \o (IF i < Len(cleaned) /\ ~BlankContent(cleaned[i + 1]) THEN <<EmptyLine>> ELSE <<>>)

RECURSIVE SpacedLines(_, _)
SpacedLines(cleaned, i) ==
    IF i > Len(cleaned) THEN <<>>
    ELSE (IF StartsWithHashes(cleaned[i], 1)
          THEN SpacedHeading(cleaned, i)
          ELSE <<cleaned[i]>>) \o SpacedLines(cleaned, i + 1)

NormalizedLines(lines) ==
    LET kept == CleanedLines(WithTitle(lines))
    IN  SpacedLines([j \in DOMAIN kept |-> kept[j].line], 1)

\* the lines a model response can hold
ContentAlphabet ==
    {EmptyLine, ContentLine(1, 0, ""), ContentLine(0, 0, "text"),
     ContentLine(0, 1, "h"), ContentLine(0, 2, "h"), ContentLine(0, 3, "h")}

\* content that passes "if not content"
Contents ==
    UNION {[1..n -> ContentAlphabet] : n \in 1..MaxContentLines} \ {<<EmptyLine>>}

\* lines 271-297
NormalizeHeadings ==
    /\ npc = "content"
    /\ final_lines' = NormalizedLines(generated_lines)
    /\ npc' = "returned"
    /\ UNCHANGED generated_lines
    /\ UNCHANGED besideNorm

NormIdle ==
    /\ generated_lines = <<>>
    /\ final_lines = <<>>
    /\ npc = "idle"

MoreIdle == LogIdle /\ MetricsIdle /\ NormIdle

ParseIdle ==
    /\ parser = "generator"
    /\ ppc = "idle"
    /\ toc_text = <<>>
    /\ extraction_text = <<>>
    /\ parsed_title = <<>>
    /\ parsed_sections = <<>>

CiteIdle ==
    /\ rewriter = "section_generator"
    /\ cpc = "idle"
    /\ section_number = 0
    /\ gen_text = <<>>
    /\ text = <<>>
    /\ grounding_supports = <<>>
    /\ grounding_chunks = <<>>
    /\ sorted_supports = <<>>
    /\ support_pos = 0
    /\ report_references = <<>>

RunIdle ==
    /\ conversation_history = <<>>
    /\ current_report_id = "None"
    /\ persisted = NoHistoryFile
    /\ pc = "init"
    /\ attempt = 0
    /\ callStatus = "idle"
    /\ outcomes = <<>>
    /\ sent = <<>>
    /\ toc = "unset"
    /\ section_titles = <<>>
    /\ idx = 0
    /\ content = NoContent
    /\ processed_sections = <<>>
    /\ genOutcome = <<>>

Init ==
    /\ impl \in {"generator", "main1"}
    /\ IF impl = "generator"
       THEN max_retries \in 0..MaxRetries /\ save_history \in BOOLEAN /\ demo_mode = FALSE
       ELSE max_retries = DecoratorRetries /\ save_history = FALSE /\ demo_mode \in BOOLEAN
    /\ resume_from = "None"
    /\ RunIdle
    /\ CiteIdle
    /\ ParseIdle
    /\ SaveIdle
    /\ ConcIdle
    /\ MoreIdle

Next ==
    \/ StartReport
    \/ AttemptSucceeds
    \/ AttemptFails
    \/ LoopFallsThrough
    \/ TocFinished
    \/ TocRaised
    \/ ExtractFinished
    \/ ExtractTypeError
    \/ SectionStart
    \/ SectionGenerated
    \/ SectionFailed
    \/ PolishFinished
    \/ WrappedAttemptSucceeds
    \/ WrappedAttemptFails
    \/ MainStart
    \/ MainCallRaised
    \/ MainTocFinished
    \/ MainExtractFinished
    \/ MainSectionFinished
    \/ MainPolishFinished

Spec == Init /\ [][Next]_vars

\* every call in flight returns or fails, and the sequential code between
\* the calls runs on: no step that can be taken is put off for ever
SpecLive == Spec /\ WF_vars(Next)

\* the rewriting on its own, for every response of the sets above
CiteInit ==
    /\ impl = "main1"
    /\ max_retries = DecoratorRetries
    /\ demo_mode = FALSE
    /\ save_history = FALSE
    /\ resume_from = "None"
    /\ RunIdle
    /\ ParseIdle
    /\ SaveIdle
    /\ ConcIdle
    /\ MoreIdle
    /\ rewriter \in Rewriters
    /\ cpc = "response"
    /\ section_number \in SectionNumbers
    /\ \E w \in Texts : gen_text = ResponseText(w)
    /\ text = gen_text
    /\ grounding_supports \in SupportLists
    /\ grounding_chunks \in ChunkLists
    /\ sorted_supports = <<>>
    /\ support_pos = 0
    /\ report_references = <<>>

CiteNext ==
    \/ NoGrounding
    \/ SortSupports
    \/ AnnotateSupport
    \/ BuildReferences

SpecCite == CiteInit /\ [][CiteNext]_vars

\* the parsing on its own, for every TOC text and extraction response
ParseInit ==
    /\ impl = "generator"
    /\ max_retries = 1
    /\ demo_mode = FALSE
    /\ save_history = FALSE
    /\ resume_from = "None"
    /\ RunIdle
    /\ CiteIdle
    /\ SaveIdle
    /\ ConcIdle
    /\ MoreIdle
    /\ parser \in Parsers
    /\ ppc = "input"
    /\ toc_text \in LinesOver(TocLines)
    /\ extraction_text \in LinesOver(ExtractionLines)
    /\ parsed_title = <<>>
    /\ parsed_sections = <<>>

ParseNext ==
    \/ ParseReturns
    \/ ParseFallsBack
    \/ ParseRaises

SpecParse == ParseInit /\ [][ParseNext]_vars

\* the save step on its own, for every report of the sets above;
\* save_to_markdown takes no reference list
SaveInit ==
    /\ impl = "generator"
    /\ max_retries = 1
    /\ demo_mode = FALSE
    /\ save_history = FALSE
    /\ resume_from = "None"
    /\ RunIdle
    /\ CiteIdle
    /\ ParseIdle
    /\ ConcIdle
    /\ MoreIdle
    /\ saver \in Savers
    /\ spc = "input"
    /\ report_title \in ReportTitles
    /\ sections_content \in ContentLists
    /\ references \in (IF saver = "generator" THEN {<<>>} ELSE ReferenceLists)
    /\ template_loaded \in BOOLEAN
    /\ markdown_content = <<>>
    /\ html_file = NoFile
    /\ pdf_file = "absent"
    /\ deliverable = "none"

SaveNext ==
    \/ SaveMarkdown
    \/ SaveHtmlOfGenerator
    \/ SaveHtmlOfFileOutput
    \/ PdfRendered
    \/ PdfRaisedInGenerator
    \/ PdfRaisedInFileOutput

SpecSave == SaveInit /\ [][SaveNext]_vars

\* a run resumed from a report id.  The generator object may have run
\* before (messages in memory); the history file is absent, unreadable, or
\* what an earlier run saved at one of its calls.
StaleHistory == <<Message("user", "stale"), Message("model", "stale")>>
SavedRun ==
    <<Message("user", "toc"), Message("model", "toc"),
      Message("user", "extract"), Message("model", "extract"),
      Message("user", "section"), Message("model", "section")>>
SavedPrefixes == {0, 2, 6}
HistoryFiles ==
    {NoHistoryFile, CorruptHistoryFile, MalformedHistoryFile}
        \cup {JsonFile(Serialize(SubSeq(SavedRun, 1, n))) : n \in SavedPrefixes}

ResumeInit ==
    /\ impl = "generator"
    /\ max_retries \in 0..1
    /\ demo_mode = FALSE
    /\ save_history = TRUE
    /\ resume_from = "20240101_000000"
    /\ conversation_history \in {<<>>, StaleHistory}
    /\ current_report_id = "None"
    /\ persisted \in HistoryFiles
    /\ pc = "init"
    /\ attempt = 0
    /\ callStatus = "idle"
    /\ outcomes = <<>>
    /\ sent = <<>>
    /\ toc = "unset"
    /\ section_titles = <<>>
    /\ idx = 0
    /\ content = NoContent
    /\ processed_sections = <<>>
    /\ genOutcome = <<>>
    /\ CiteIdle
    /\ ParseIdle
    /\ SaveIdle
    /\ ConcIdle
    /\ MoreIdle

ResumeNext ==
    \/ LoadHistory
    \/ LoadFails
    \/ ResumedTocCall
    \/ AttemptSucceeds
    \/ AttemptFails
    \/ LoopFallsThrough
    \/ TocFinished
    \/ TocRaised
    \/ ExtractFinished
    \/ ExtractTypeError
    \/ SectionStart
    \/ SectionGenerated
    \/ SectionFailed
    \/ PolishFinished

SpecResume == ResumeInit /\ [][ResumeNext]_vars

\* two runs of main1.main(), interleaved step by step
ConcInit ==
    /\ impl = "main1"
    /\ max_retries = DecoratorRetries
    /\ demo_mode = FALSE
    /\ save_history = FALSE
    /\ resume_from = "None"
    /\ RunIdle
    /\ CiteIdle
    /\ ParseIdle
    /\ SaveIdle
    /\ ConcIdle
    /\ MoreIdle

ConcNext ==
    \/ \E r \in Runs : ConcStart(r)
    \/ \E r \in Runs : ConcCall(r)
    \/ \E r \in Runs : ConcSave(r)

SpecConc == ConcInit /\ [][ConcNext]_vars

\* one run of main1.main() as its request log sees it
LogInit ==
    /\ impl = "main1"
    /\ max_retries = DecoratorRetries
    /\ demo_mode = FALSE
    /\ save_history = FALSE
    /\ resume_from = "None"
    /\ RunIdle
    /\ CiteIdle
    /\ ParseIdle
    /\ SaveIdle
    /\ ConcIdle
    /\ request_log = <<>>
    /\ lpc = "start"
    /\ log_attempt = 0
    /\ log_left = 0
    /\ MetricsIdle
    /\ NormIdle

\* two runs of main1.main() metering their calls; the file is missing or was
\* left by an earlier run
MetricsInit ==
    /\ impl = "main1"
    /\ max_retries = DecoratorRetries
    /\ demo_mode = FALSE
    /\ save_history = FALSE
    /\ resume_from = "None"
    /\ RunIdle
    /\ CiteIdle
    /\ ParseIdle
    /\ SaveIdle
    /\ ConcIdle
    /\ LogIdle
    /\ \E earlier \in BOOLEAN :
         /\ csv_present = earlier
         /\ metrics_csv = IF earlier THEN WrittenRows(FALSE, 0, 1) ELSE <<>>
    /\ file_exists = [r \in Runs |-> FALSE]
    /\ mpc = [r \in Runs |-> "check"]
    /\ metric_count = [r \in Runs |-> 0]
    /\ NormIdle

\* generate_section_content after a call that returned content
NormInit ==
    /\ impl = "generator"
    /\ max_retries = 0
    /\ demo_mode = FALSE
    /\ save_history = FALSE
    /\ resume_from = "None"
    /\ RunIdle
    /\ CiteIdle
    /\ ParseIdle
    /\ SaveIdle
    /\ ConcIdle
    /\ LogIdle
    /\ MetricsIdle
    /\ generated_lines \in Contents
    /\ final_lines = <<>>
    /\ npc = "content"

NormNext == NormalizeHeadings

SpecNorm == NormInit /\ [][NormNext]_vars

MetricsNext ==
    \E r \in Runs :
        \/ MetricCheck(r)
        \/ MetricOpen(r)
        \/ MetricWrite(r)

SpecMetrics == MetricsInit /\ [][MetricsNext]_vars

LogNext ==
    \/ LogRunStarts
    \/ LogAttemptReturns
    \/ LogAttemptRaises
    \/ LogSave
    \/ LogUpload

SpecLog == LogInit /\ [][LogNext]_vars

TypeOK ==
    /\ max_retries \in 0..MaxRetries \cup {DecoratorRetries}
    /\ pc \in {"init", "toc", "extract", "section_start", "section", "polish", "done", "failed",
              "loaded"}
    /\ callStatus \in {"idle", "running", "ok", "raised", "none"}
    /\ Len(processed_sections) <= Len(section_titles)

\* ============================================================ properties

\* roles strictly alternate user, model, user, ... starting with user
Alternates(h) ==
    \A k \in 1..Len(h) : h[k].role = (IF k % 2 = 1 THEN "user" ELSE "model")

Fails(n) == [k \in 1..n |-> "fail"]
SucceedsAt(K) == [k \in 1..K |-> IF k = K THEN "ok" ELSE "fail"]

\* C1: the conversation history passed to the model at every generation call
\* strictly alternates in role, starting with user.
C1_SentHistoryAlternates == Alternates(sent)

\* C2: with max_retries = N >= 1, a call that raised was invoked exactly N
\* times, all failing; a call that returned was invoked exactly K <= N times,
\* the first K-1 failing and the K-th succeeding; a call still running has
\* made fewer than N attempts, all failing; nothing is invoked outside a call.
C2_RetryBound ==
    max_retries >= 1 =>
        /\ callStatus = "raised" => outcomes = Fails(max_retries)
        /\ callStatus = "ok" => \E K \in 1..max_retries : outcomes = SucceedsAt(K)
        /\ callStatus = "running" =>
               Len(outcomes) < max_retries /\ outcomes = Fails(Len(outcomes))
        /\ callStatus = "idle" => outcomes = <<>>
        /\ callStatus # "none"

\* a call that succeeded on its second attempt, after an earlier section call
\* of the same run had exhausted its retries
C2_Witness ==
    /\ max_retries = 2
    /\ callStatus = "ok"
    /\ outcomes = SucceedsAt(2)
    /\ \E j \in DOMAIN genOutcome : genOutcome[j] = "raised"

\* C3: a finished call either returns the result of a successful invocation
\* or raises the last error, for every max_retries including 0.
C3_ReturnsResultOrRaises ==
    callStatus \notin {"idle", "running"} =>
        \/ callStatus = "ok" /\ outcomes # <<>> /\ outcomes[Len(outcomes)] = "ok"
        \/ callStatus = "raised" /\ outcomes # <<>> /\ outcomes[Len(outcomes)] = "fail"

\* content produced by a successful generation, without error placeholder
NormalContent(c) ==
    c.kind \in {"generated", "polished", "no_references"} /\ ~c.marker

\* C4: when only the generation call of section 2 of 3 exhausts its retries,
\* the run ends with three sections, sections 1 and 3 with normal content
\* and section 2 with a visible error marker.
C4_PartialFailureIsolation ==
    ( /\ pc \in {"done", "failed"}
      /\ Len(section_titles) = 3
      /\ Len(genOutcome) >= 2
      /\ genOutcome[1] = "ok"
      /\ genOutcome[2] = "raised"
      /\ Len(genOutcome) = 3 => genOutcome[3] \in {"ok", "no_call"} )
    =>
    ( /\ pc = "done"
      /\ Len(processed_sections) = 3
      /\ NormalContent(processed_sections[1].content)
      /\ NormalContent(processed_sections[3].content)
      /\ processed_sections[2].content.marker )

\* C5: process_report reaching its end with a non-empty title list returns
\* exactly one ReportSection per extracted title, in order, with that title.
C5_OneSectionPerTitle ==
    (impl = "generator" /\ pc = "done" /\ section_titles # <<>>) =>
        /\ Len(processed_sections) = Len(section_titles)
        /\ \A j \in DOMAIN section_titles :
               processed_sections[j].title = section_titles[j]

\* a finished three-section run with a generation that exhausted its retries
\* and a section that kept its error placeholder
C5_Witness ==
    /\ impl = "generator"
    /\ pc = "done"
    /\ Len(section_titles) = 3
    /\ \E j \in DOMAIN genOutcome : genOutcome[j] = "raised"
    /\ \E j \in DOMAIN processed_sections :
           processed_sections[j].content.kind = "error_generating"

\* ------------------------------------------------------------ citations

\* the (section, local index) pairs of the markers standing in a text
MarkerIds(t) == {<<t[q].sec, t[q].idx>> : q \in {r \in DOMAIN t : t[r].c = "href"}}

\* the (section, local index) pairs of the reference entries emitted
EntryIds ==
    UNION {{<<report_references[b][j].sec, report_references[b][j].idx>> :
                j \in DOMAIN report_references[b]} : b \in DOMAIN report_references}

\* the links the rewriting builds for a support
LinksOf(support) ==
    Superscript(section_number,
                LinkedIndices(rewriter, support.grounding_chunk_indices, grounding_chunks))

\* t with the links put in right after its token q
InsertedAfter(t, q, links) == SubSeq(t, 1, q) \o links \o SubSeq(t, q + 1, Len(t))

\* one turn of the loop over sorted_supports is being taken
SupportStep == cpc = "supports" /\ support_pos' = support_pos + 1

\* C6: once a section is rewritten, every marker [s.k] in its content has a
\* reference entry ref-section-s-k in the section's reference list, whatever
\* the source indices of the grounding metadata.
C6_NoDanglingMarker ==
    cpc = "returned" => MarkerIds(text) \subseteq EntryIds

\* C7: once a section is rewritten, every reference entry emitted for it is
\* cited by at least one marker in the section's content.
C7_NoOrphanEntry ==
    cpc = "returned" => EntryIds \subseteq MarkerIds(text)

\* C8: with no grounding segments or no grounding sources the rewriting goes
\* straight to its return, with the generated text unchanged and an empty
\* reference list, for every text.
C8_NoGroundingUnchanged ==
    (cpc # "response" /\ (grounding_supports = <<>> \/ grounding_chunks = <<>>)) =>
        /\ cpc = "returned"
        /\ text = gen_text
        /\ report_references = <<>>

C8_Witness ==
    /\ cpc = "returned"
    /\ gen_text # <<>>
    /\ grounding_chunks = <<>>
    /\ \E j \in DOMAIN grounding_supports :
           /\ grounding_supports[j].grounding_chunk_indices # <<>>
           /\ Hits(Strip(grounding_supports[j].segment), gen_text) # {}

\* C9: when the text of a segment with at least one source occurs several
\* times in the generated text, the rewriting puts the segment's markers after
\* the first of these occurrences and changes nothing else.
C9_FirstOccurrenceOfGeneratedText ==
    [][ SupportStep =>
          LET support == sorted_supports[support_pos]
              seg == Strip(support.segment)
              occ == Hits(seg, gen_text)
          IN (support.grounding_chunk_indices # <<>> /\ Cardinality(occ) >= 2) =>
                 \E p \in occ :
                     /\ \A r \in occ : p <= r
                     /\ \E q \in DOMAIN text :
                            /\ text[q].pos = p + Len(seg)
                            /\ text' = InsertedAfter(text, q, LinksOf(support)) ]_vars

\* C9 as it holds: when the text of a segment with at least one source occurs
\* several times in the text as rewritten so far (the generated text with the
\* markers of the segments treated before), the rewriting puts the segment's
\* markers after the first of these occurrences and changes nothing else.
C9_FirstOccurrenceOfWorkingText ==
    [][ SupportStep =>
          LET support == sorted_supports[support_pos]
              seg == Strip(support.segment)
              occ == Hits(seg, text)
          IN (support.grounding_chunk_indices # <<>> /\ Cardinality(occ) >= 2) =>
                 \E p \in occ :
                     /\ \A r \in occ : p <= r
                     /\ text' = InsertedAfter(text, p + Len(seg), LinksOf(support)) ]_vars

\* the second of two segments has been treated, it occurred several times in
\* the text the first one had already annotated, and it was annotated
C9_Witness ==
    /\ cpc = "supports"
    /\ support_pos = 3
    /\ \A j \in 1..2 : sorted_supports[j].grounding_chunk_indices # <<>>
    /\ LET first == sorted_supports[1]
           second == sorted_supports[2]
           mid == ReSub(Strip(first.segment), LinksOf(first), gen_text)
       IN /\ mid # gen_text
          /\ Cardinality(Hits(Strip(second.segment), mid)) >= 2
          /\ text # mid

\* b occurs inside a
IsSubstring(b, a) == \E p \in 0..(Len(a) - Len(b)) : SubSeq(a, p + 1, p + Len(b)) = b

\* C10: of two segments with sources where the matched text of one is a
\* substring of the matched text of the other, the longer is substituted first.
C10_LongerSubstitutedFirst ==
    cpc \in {"supports", "returned"} =>
        \A i, j \in DOMAIN sorted_supports :
            LET a == Strip(sorted_supports[i].segment)
                b == Strip(sorted_supports[j].segment)
            IN ( /\ sorted_supports[i].grounding_chunk_indices # <<>>
                 /\ sorted_supports[j].grounding_chunk_indices # <<>>
                 /\ Len(a) > Len(b)
                 /\ IsSubstring(b, a) ) => i < j

\* ------------------------------------------------------------ TOC parsing

HasRomanLine(t) == RomanAt(t) # {}

\* C11: when the extraction text lacks the SECTIONS: marker and the text
\* holds at least one "I. Title" line, the parsing returns, with the default
\* title and a non-empty section list.
C11_FallbackOnMissingMarker ==
    ( /\ ppc # "input"
      /\ MarkerAt(extraction_text) = {}
      /\ HasRomanLine(extraction_text)
      /\ HasRomanLine(toc_text) )
    =>
    ( /\ ppc = "returned"
      /\ parsed_title = DefaultTitle
      /\ parsed_sections # <<>> )

\* --------------------------------------------------------------- polishing

\* the titles that hold a skip term, whatever the case
NamesSkipTerm ==
    {"References", "REFERENCES", "references", "Appendix A", "List of Appendices"}

\* section idx is neither the last one nor named after a skip term
Polishable == idx < Len(section_titles) /\ section_titles[idx] \notin NamesSkipTerm

\* the step appends the section the loop is at
SectionCompletes == Len(processed_sections') = Len(processed_sections) + 1

\* C12: in process_report a polishing call is issued for section i exactly
\* when the section is not the last one and its title holds none of the skip
\* terms in any case: "References", however cased, is never polished and
\* "Market Overview" is.
C12_PolishedIffEligible ==
    /\ [](SkippedTitles = NamesSkipTerm)
    /\ []((impl = "generator" /\ pc = "polish") => Polishable)
    /\ [][(impl = "generator" /\ SectionCompletes /\ Polishable) => pc = "polish"]_vars

\* "Market Overview" is being polished after an earlier "References" section
\* was appended as generated
C12_Witness ==
    /\ impl = "generator"
    /\ pc = "polish"
    /\ callStatus = "running"
    /\ section_titles[idx] = "Market Overview"
    /\ \E j \in DOMAIN processed_sections :
           /\ processed_sections[j].title = "References"
           /\ processed_sections[j].content.kind = "generated"

\* ------------------------------------------------------ failure handling
\* the step the orchestrator takes once the polishing call has raised
PolishCallRaised == pc = "polish" /\ callStatus = "raised"

\* C13: when the polishing call of a section has raised after its retries,
\* the next step keeps the section with its unpolished content and does not
\* end the run in failure.
C13_PolishFailureKeepsContent ==
    [][PolishCallRaised =>
          /\ pc' # "failed"
          /\ processed_sections' =
                 Append(processed_sections,
                        [title |-> section_titles[idx], content |-> content])]_vars

\* the run has just ended with an exception reaching the caller
RunRaises == pc # "failed" /\ pc' = "failed"

\* C14: an exception reaches the caller of the run only from the table of
\* contents steps (generation, extraction), never from the generation or
\* polishing call of a section.
C14_OnlyTocFailuresPropagate ==
    [][RunRaises => pc \in {"toc", "extract"}]_vars

\* a generation or polishing call of a section has been issued in this run
SectionCallIssued ==
    \/ pc \in {"section", "polish"}
    \/ genOutcome # <<>>
    \/ \E j \in DOMAIN conversation_history :
           conversation_history[j].op \in {"section", "polish"}

SaveOver == spc \in {"returned", "raised"}

\* C16: when PDF rendering raised, the save step has returned normally, the
\* HTML file holds the rendered report, and that file is what is returned.
C16_PdfFailureKeepsHtml ==
    (SaveOver /\ pdf_file = "failed") =>
        /\ spc = "returned"
        /\ html_file = HtmlDoc(markdown_content)
        /\ deliverable = "html"

\* the lines of a document that are not blank, without leading whitespace
RECURSIVE TextLines(_)
TextLines(doc) ==
    IF doc = <<>> THEN <<>>
    ELSE SelectSeq([j \in DOMAIN Head(doc) |-> StripLine(Head(doc)[j])],
                   LAMBDA l : ~IsBlank(l))
             \o TextLines(Tail(doc))

\* every section once, in order, a rule between two sections
RECURSIVE RuledSections(_)
RuledSections(sections) ==
    IF sections = <<>> THEN <<>>
    ELSE <<Head(sections)>>
             \o (IF Tail(sections) = <<>> THEN <<>> ELSE <<HorizontalRule>>)
             \o RuledSections(Tail(sections))

\* C20: the Markdown written is the H1 title, the [TOC] marker, each
\* section's content once in input order with a horizontal rule between
\* sections, then the references block exactly when there are references
\* (compared line by line, blank lines and indentation aside).
C20_MarkdownAssembly ==
    spc \notin {"idle", "input"} =>
        TextLines(markdown_content) =
            TextLines(DocumentHead(report_title)
                          \o RuledSections(sections_content)
                          \o (IF references # <<>>
                              THEN <<ReferencesHeading>> \o references
                              ELSE <<>>))

\* ----------------------------------------------------------------- resume
\* h2 is h1 with messages appended
Extends(h2, h1) == Len(h1) <= Len(h2) /\ SubSeq(h2, 1, Len(h1)) = h1

\* C17: a successful load leaves in memory exactly the persisted records, in
\* order, and none of the messages that were in memory before; every other
\* step of the run only appends to the history, so a load happens at run
\* start only.
C17_ReloadReplacesWholesale ==
    [][/\ pc' = "loaded" =>
            /\ pc = "init"
            /\ conversation_history' = Deserialize(persisted.data)
            /\ \A j \in DOMAIN conversation_history' :
                   \A k \in DOMAIN conversation_history :
                       conversation_history'[j] # conversation_history[k]
       /\ pc # "init" => Extends(conversation_history', conversation_history)]_vars

C17_Witness ==
    /\ pc = "loaded"
    /\ current_report_id = resume_from
    /\ Len(conversation_history) = 6
    /\ conversation_history = Deserialize(persisted.data)

\* C18: no table of contents or extraction call is issued while the history
\* already holds the model's response to that step (sections aside: their
\* messages do not tell which section they belong to).
C18_ResumeSkipsCompletedSteps ==
    \A op \in {"toc", "extract"} :
        (pc = op /\ callStatus = "running") =>
            \A j \in DOMAIN conversation_history :
                conversation_history[j] # Message("model", op)

\* ------------------------------------------------------- concurrent runs
\* everything in s was appended by run r under r's request id
OwnedBy(s, r) ==
    /\ s.current_request_id = RequestId(r)
    /\ \A j \in DOMAIN s.contents : s.contents[j].by = r
    /\ \A j \in DOMAIN s.report_references : s.report_references[j].by = r
    /\ \A j \in DOMAIN s.token_metrics :
           /\ s.token_metrics[j].by = r
           /\ s.token_metrics[j].request_id = RequestId(r)

\* C19: in every interleaving of the two runs, the state a started run works
\* on holds its own request id and only messages, references and metrics it
\* appended itself, and the document it saves holds only its own references
\* under its own request id.
C19_CrossRunIsolation ==
    \A r \in Runs :
        /\ run_pc[r] # "idle" => OwnedBy(report_states[StateOf(r)], r)
        /\ run_pc[r] = "saved" =>
               /\ saved_documents[r].request_id = RequestId(r)
               /\ \A j \in DOMAIN saved_documents[r].references :
                      saved_documents[r].references[j].by = r

C19_Witness ==
    /\ run_pc[1] = "saved"
    /\ run_pc[2] = "running"
    /\ saved_documents[1].references # <<>>
    /\ report_states[StateOf(2)].report_references # <<>>
    /\ Len(report_states[StateOf(2)].contents) = 2
    /\ Len(report_states[StateOf(1)].contents) = 4

\* ----------------------------------------------------------------- order
\* place of a generation step in the order of a run
StepRank(op) == CASE op = "toc" -> 1 [] op = "extract" -> 2 [] OTHER -> 3

\* C21: the calls of a run come one after the other in the order TOC,
\* extraction, sections: the TOC call runs before anything was extracted,
\* the extraction call after the TOC call returned, and the generation or
\* polishing call of section i only when exactly the i - 1 sections before
\* it are complete; the prompts in the history follow the same order.
C21_CallsTotallyOrdered ==
    /\ pc = "toc" =>
           toc = "unset" /\ section_titles = <<>> /\ processed_sections = <<>>
    /\ pc = "extract" =>
           toc # "unset" /\ section_titles = <<>> /\ processed_sections = <<>>
    /\ pc \in {"section", "polish"} =>
           /\ idx \in 1..Len(section_titles)
           /\ Len(processed_sections) = idx - 1
    /\ \A j, k \in DOMAIN conversation_history :
           j < k => StepRank(conversation_history[j].op)
                        <= StepRank(conversation_history[k].op)

C21_Witness ==
    /\ impl = "generator"
    /\ pc = "section"
    /\ callStatus = "running"
    /\ idx = 2
    /\ Len(processed_sections) = 1
    /\ processed_sections[1].content.kind = "polished"

\* ------------------------------------------------------ references section
\* generate_section_content is entered for the last section and every
\* previous section's content is a text
LastSectionReached ==
    /\ impl = "generator"
    /\ pc = "section_start"
    /\ idx = Len(section_titles)
    /\ \A j \in DOMAIN processed_sections : processed_sections[j].content # None

\* a previous section's content holds a bracketed numeral
CitationFound == \E j \in DOMAIN processed_sections : processed_sections[j].content.cites

\* C22: at the last section, without a citation in the previous sections no
\* call is issued, the history stays as it is and the section gets the
\* "no references" placeholder; with a citation one generation call is
\* issued, and the run ends when that call is over.
C22_ReferencesWithoutCitations ==
    [][/\ (LastSectionReached /\ ~CitationFound) =>
            /\ conversation_history' = conversation_history
            /\ callStatus' = "idle"
            /\ pc' = "done"
            /\ processed_sections' =
                   Append(processed_sections,
                          [title |-> section_titles[idx], content |-> NoReferences])
       /\ (LastSectionReached /\ CitationFound) =>
            /\ conversation_history' =
                   Append(conversation_history, Message("user", "section"))
            /\ callStatus' = "running"
            /\ pc' = "section"
       /\ (impl = "generator" /\ pc = "section" /\ idx = Len(section_titles)
              /\ pc' # pc) => pc' = "done"]_vars

C22_Witness ==
    /\ impl = "generator"
    /\ pc = "done"
    /\ Len(processed_sections) = 2
    /\ processed_sections[1].content.kind = "polished"
    /\ ~processed_sections[1].content.cites
    /\ processed_sections[2].content = NoReferences
    /\ genOutcome[2] = "no_call"

\* ------------------------------------------------------ missing segments
\* C23: a turn of the loop for a segment whose text does not occur in the
\* generated text inserts no marker (the text stays as it is) and moves on
\* to the next segment; after the loop the reference list is built.
C23_MissingSegmentSkipped ==
    [][/\ SupportStep =>
            (Hits(Strip(sorted_supports[support_pos].segment), gen_text) = {}
                 => text' = text)
       /\ (cpc = "supports" /\ cpc' # cpc) =>
            /\ cpc' = "returned"
            /\ support_pos > Len(sorted_supports)
            /\ Len(report_references') = 1]_vars

\* ------------------------------------------------------------ request log
StatusVocabulary ==
    {"initialize", "generating", "polishing", "saving", "uploading",
     "completed", "error", "retry"}

\* C24: every row of the request log has a status of the vocabulary, and a
\* step only appends rows to the log.
C24_StableStatusVocabulary ==
    /\ [](\A j \in DOMAIN request_log : request_log[j] \in StatusVocabulary)
    /\ [][Extends(request_log', request_log)]_vars

\* an attempt of a wrapped call has just failed
LoggedAttemptFailed ==
    /\ lpc \in LoggedCalls
    /\ \/ log_attempt' = log_attempt + 1
       \/ lpc' = "failed"

\* C26: a failed attempt of a retried call appends rows to the request log
\* that end with a "retry" row when another attempt follows, and with an
\* "error" row when the retries are exhausted.
C26_FailedAttemptsLogged ==
    [][LoggedAttemptFailed =>
          /\ Len(request_log') > Len(request_log)
          /\ request_log'[Len(request_log')] =
                 (IF log_attempt' = log_attempt + 1 THEN "retry" ELSE "error")]_vars

\* ------------------------------------------------------------ metrics CSV
\* C25: under every interleaving of the runs the metrics file is a
\* well-formed table: the header row is there exactly once, as the first
\* row, and every other row is one metric row of one run.
C25_MetricsTableWellFormed ==
    metrics_csv # <<>> =>
        /\ metrics_csv[1] = HeaderRow
        /\ \A j \in 2..Len(metrics_csv) :
              /\ metrics_csv[j] # HeaderRow
              /\ \E r \in {0} \cup Runs, k \in 1..MaxMetricCalls :
                    metrics_csv[j] = MetricRow(r, k)

\* ------------------------------------------------------- heading clean-up
HeadingLine(line) == StartsWithHashes(line, 1)

\* the neighbour of line j on one side, where there is one, is a single
\* blank line
OneBlankBeside(lines, j, step) ==
    (j + step \in DOMAIN lines) =>
        /\ BlankContent(lines[j + step])
        /\ (j + 2 * step \in DOMAIN lines) => ~BlankContent(lines[j + 2 * step])

\* C27: after the clean-up the first line is a level-2 heading, no two
\* consecutive lines are blank, and every heading line has exactly one blank
\* line on each side where the content goes on.
C27_HeadingsNormalized ==
    npc = "returned" =>
        /\ final_lines[1].spaces = 0 /\ final_lines[1].hashes = 2
        /\ \A j \in 1..(Len(final_lines) - 1) :
              ~(BlankContent(final_lines[j]) /\ BlankContent(final_lines[j + 1]))
        /\ \A j \in DOMAIN final_lines :
              HeadingLine(final_lines[j]) =>
                  /\ OneBlankBeside(final_lines, j, -1)
                  /\ OneBlankBeside(final_lines, j, 1)

\* ------------------------------------------------- history of one call
\* a step that enters generate_content
CallBegins == callStatus # "running" /\ callStatus' = "running"

\* a step that is one attempt of the call in flight
AttemptMade(outcome) == callStatus = "running" /\ outcomes' = Append(outcomes, outcome)

\* C29: generate_content adds the user prompt once, on entry, whatever the
\* number of attempts; only the attempt that succeeds adds a model message;
\* a failed attempt changes neither the history nor the persisted file, so a
\* call that exhausts its retries leaves the history one user message longer
\* than it found it and persists nothing.
C29_PromptOncePerCall ==
    /\ [](impl = "generator" /\ callStatus \in {"running", "raised", "none"} =>
             /\ conversation_history # <<>>
             /\ conversation_history[Len(conversation_history)].role = "user"
             /\ outcomes \in Seq({"fail"}))
    /\ [][impl = "generator" =>
             /\ CallBegins =>
                    /\ \/ conversation_history' =
                              Append(conversation_history, Message("user", pc'))
                       \/ pc = "init" /\ conversation_history' = <<Message("user", pc')>>
                    /\ persisted' = persisted
             /\ AttemptMade("fail") =>
                    /\ conversation_history' = conversation_history
                    /\ persisted' = persisted
             /\ AttemptMade("ok") =>
                    conversation_history' =
                        Append(conversation_history, Message("model", pc))]_vars

\* a call raised after two failed attempts, its prompt the last message
C29_Witness ==
    /\ impl = "generator"
    /\ callStatus = "raised"
    /\ Len(outcomes) >= 2
    /\ conversation_history = sent
    /\ conversation_history[Len(conversation_history)] = Message("user", pc)
    /\ persisted = NoHistoryFile

RunOver == pc \in {"done", "failed"}

\* C28: when every call in flight eventually returns or fails, the run ends
\* done or failed; a call makes at most max_retries attempts, each with the
\* next attempt number, and the section loop only moves forward: a section
\* is completed once and there are never more completed sections than
\* extracted titles.
C28_RunTerminates ==
    /\ <>RunOver
    /\ [](/\ Len(outcomes) <= max_retries
          /\ attempt <= max_retries
          /\ Len(processed_sections) <= Len(section_titles))
    /\ [][/\ idx' >= idx
          /\ Extends(processed_sections', processed_sections)
          /\ Len(processed_sections') <= Len(processed_sections) + 1
          /\ (callStatus = "running" /\ callStatus' = "running") =>
                 Len(outcomes') = Len(outcomes) + 1
          /\ RunOver => RunOver']_vars

\* a run with the most retries and sections came to its end
C28_Witness ==
    /\ pc = "done"
    /\ max_retries = MaxRetries
    /\ Len(section_titles) = MaxSections
    /\ Len(processed_sections) = MaxSections
====
